---- MODULE Spec2Model ----
(***************************************************************************)
(* Heat-sheet parsing (normalizer, line scanner, field extractors) and the *)
(* timeline estimator of src/main.py.                                      *)
(*                                                                         *)
(* Text is a sequence of one-character strings.  The regular expressions   *)
(* of the source are written out as matchers over such sequences, with the *)
(* greedy/backtracking order of Python's re module.                        *)
(***************************************************************************)
EXTENDS Integers, Sequences, FiniteSets, TLC

VARIABLES
    call,   \* the running _parse_heat_sheet calls: call id -> scanner state
    norm,   \* a text handed to _normalize and what came back
    tl,     \* the running timeline_estimate request
    given,  \* history: the parts the input document was put together from
    ex,     \* the running extract_swimmer_events request
    crowd   \* the crowd store, its lock and the requests that use it

vars == <<call, norm, tl, given, ex, crowd>>

(***************************************************************************)
(* Python None.  Numbers read from text are never negative and a text is   *)
(* a sequence of one-character strings, so neither value can be produced   *)
(* by the program as a real number or a real string.                       *)
(***************************************************************************)
NoneInt == 0 - 1
NoneStr == <<"<None>">>

----------------------------------------------------------------------------
(* Character classes of the re module, restricted to ASCII *)

UpperCase == <<"A","B","C","D","E","F","G","H","I","J","K","L","M",
               "N","O","P","Q","R","S","T","U","V","W","X","Y","Z">>
LowerCase == <<"a","b","c","d","e","f","g","h","i","j","k","l","m",
               "n","o","p","q","r","s","t","u","v","w","x","y","z">>

Digit == {"0","1","2","3","4","5","6","7","8","9"}
WS    == {" ", "\t", "\n"}
Alpha == {UpperCase[i] : i \in 1..26} \cup {LowerCase[i] : i \in 1..26}
Word  == Alpha \cup Digit \cup {"_"}
NameCh == Alpha \cup {"'", "-"}
MidCh  == Alpha \cup {"."}

\* str.lower() on one character
Lower(c) ==
    IF \E i \in 1..26 : UpperCase[i] = c
    THEN LowerCase[CHOOSE i \in 1..26 : UpperCase[i] = c]
    ELSE c

\* int() of one decimal digit
DigitVal(c) ==
    CASE c = "0" -> 0 [] c = "1" -> 1 [] c = "2" -> 2 [] c = "3" -> 3
      [] c = "4" -> 4 [] c = "5" -> 5 [] c = "6" -> 6 [] c = "7" -> 7
      [] c = "8" -> 8 [] c = "9" -> 9

\* int() of a non-empty string of decimal digits
RECURSIVE ToInt(_)
ToInt(ds) ==
    IF Len(ds) = 0 THEN 0
    ELSE 10 * ToInt(SubSeq(ds, 1, Len(ds) - 1)) + DigitVal(ds[Len(ds)])

\* s[a:b] for 1-based positions a (first) and b (one past the last)
Slice(s, a, b) == SubSeq(s, a, b - 1)

\* position one past the longest run of characters of class C that starts
\* at position i (a greedy C*)
SpanEnd(s, i, C) ==
    IF i > Len(s) THEN i
    ELSE CHOOSE j \in i..(Len(s) + 1) :
            /\ \A k \in i..(j - 1) : s[k] \in C
            /\ (j = Len(s) + 1 \/ s[j] \notin C)

\* position of the first character c at or after i, Len(s)+1 when none
\* (a greedy [^c]*)
FindCh(s, i, c) ==
    IF i > Len(s) THEN i
    ELSE CHOOSE j \in i..(Len(s) + 1) :
            /\ \A k \in i..(j - 1) : s[k] # c
            /\ (j = Len(s) + 1 \/ s[j] = c)

\* the literal w occurs in s at position i
HasLit(s, i, w) ==
    /\ i >= 1
    /\ i + Len(w) - 1 <= Len(s)
    /\ \A k \in 1..Len(w) : s[i + k - 1] = w[k]

\* the same under re.I
HasLitI(s, i, w) ==
    /\ i >= 1
    /\ i + Len(w) - 1 <= Len(s)
    /\ \A k \in 1..Len(w) : Lower(s[i + k - 1]) = Lower(w[k])

\* str.strip()
Strip(s) ==
    IF \A k \in 1..Len(s) : s[k] \in WS THEN <<>>
    ELSE LET a == CHOOSE i \in 1..Len(s) :
                     s[i] \notin WS /\ \A k \in 1..(i - 1) : s[k] \in WS
             b == CHOOSE i \in 1..Len(s) :
                     s[i] \notin WS /\ \A k \in (i + 1)..Len(s) : s[k] \in WS
         IN SubSeq(s, a, b)

\* str.rstrip(")")
RStripParen(s) ==
    IF \A k \in 1..Len(s) : s[k] = ")" THEN <<>>
    ELSE LET b == CHOOSE i \in 1..Len(s) :
                     s[i] # ")" /\ \A k \in (i + 1)..Len(s) : s[k] = ")"
         IN SubSeq(s, 1, b)

\* str.splitlines() for the line boundary "\n"
RECURSIVE SplitLines(_)
SplitLines(s) ==
    IF Len(s) = 0 THEN <<>>
    ELSE LET j == FindCh(s, 1, "\n")
         IN <<Slice(s, 1, j)>> \o SplitLines(SubSeq(s, j + 1, Len(s)))

\* "\n".join(ls)
RECURSIVE JoinLines(_)
JoinLines(ls) ==
    IF Len(ls) = 0 THEN <<>>
    ELSE IF Len(ls) = 1 THEN ls[1]
    ELSE ls[1] \o <<"\n">> \o JoinLines(Tail(ls))

HeatW == <<"H","e","a","t">>
OfW   == <<"o","f">>

----------------------------------------------------------------------------
(* _normalize: four re.sub passes *)

NoMatch == [ok |-> FALSE]

\* \s+([^)]+)\) at position l; \s+ gives back one character when nothing
\* but white space stands before the closing parenthesis
ParenTail(s, l) ==
    LET m == SpanEnd(s, l, WS)
        n == FindCh(s, l, ")")
    IN IF m > l /\ n <= Len(s) /\ (n > m \/ m - 1 > l)
       THEN [ok |-> TRUE,
             g  |-> IF n > m THEN Slice(s, m, n) ELSE Slice(s, m - 1, n),
             end |-> n + 1]
       ELSE NoMatch

\* a replacement that puts the heat line before the event line
RepMergedOf_HeatFirst(h, t, ev, nm) ==
    HeatW \o <<" ">> \o h \o <<" ">> \o OfW \o <<" ">> \o t
        \o <<"\n", "#">> \o ev \o <<" ">> \o nm

\* the replacement r"#\3 \4\nHeat \1 of \2"
RepMergedOf(h, t, ev, nm) ==
    <<"#">> \o ev \o <<" ">> \o nm \o <<"\n">>
        \o HeatW \o <<" ">> \o h \o <<" ">> \o OfW \o <<" ">> \o t

\* the replacement r"#\2 \3\nHeat \1"
RepMergedOnly(h, ev, nm) ==
    <<"#">> \o ev \o <<" ">> \o nm \o <<"\n">> \o HeatW \o <<" ">> \o h

\* Heat\s+(\d+)\s+of\s+(\d+)\s+\(#(\d+)\s+([^)]+)\)
MatchMergedOf(s, i) ==
    LET a == i + 4
        b == SpanEnd(s, a, WS)
        c == SpanEnd(s, b, Digit)
        d == SpanEnd(s, c, WS)
        e == d + 2
        f == SpanEnd(s, e, WS)
        g == SpanEnd(s, f, Digit)
        h == SpanEnd(s, g, WS)
        k == h + 2
        l == SpanEnd(s, k, Digit)
        t == ParenTail(s, l)
    IN IF /\ HasLit(s, i, HeatW) /\ b > a /\ c > b /\ d > c
          /\ HasLit(s, d, OfW) /\ f > e /\ g > f /\ h > g
          /\ HasLit(s, h, <<"(", "#">>) /\ l > k /\ t.ok
       THEN [ok |-> TRUE, end |-> t.end,
             rep |-> RepMergedOf(Slice(s, b, c), Slice(s, f, g),
                                 Slice(s, k, l), t.g)]
       ELSE NoMatch

\* Heat\s+(\d+)\s+\(#(\d+)\s+([^)]+)\)
MatchMergedOnly(s, i) ==
    LET a == i + 4
        b == SpanEnd(s, a, WS)
        c == SpanEnd(s, b, Digit)
        h == SpanEnd(s, c, WS)
        k == h + 2
        l == SpanEnd(s, k, Digit)
        t == ParenTail(s, l)
    IN IF /\ HasLit(s, i, HeatW) /\ b > a /\ c > b /\ h > c
          /\ HasLit(s, h, <<"(", "#">>) /\ l > k /\ t.ok
       THEN [ok |-> TRUE, end |-> t.end,
             rep |-> RepMergedOnly(Slice(s, b, c), Slice(s, k, l), t.g)]
       ELSE NoMatch

\* (?<!\n)(#\d+\s+)  ->  \n\1
MatchHashStart(s, i) ==
    LET d == SpanEnd(s, i + 1, Digit)
        w == SpanEnd(s, d, WS)
    IN IF /\ (i = 1 \/ s[i - 1] # "\n")
          /\ s[i] = "#" /\ d > i + 1 /\ w > d
       THEN [ok |-> TRUE, end |-> w, rep |-> <<"\n">> \o Slice(s, i, w)]
       ELSE NoMatch

\* (?<!\n)(Heat\s+\d+)  ->  \n\1
MatchHeatStart(s, i) ==
    LET a == i + 4
        b == SpanEnd(s, a, WS)
        c == SpanEnd(s, b, Digit)
    IN IF /\ (i = 1 \/ s[i - 1] # "\n")
          /\ HasLit(s, i, HeatW) /\ b > a /\ c > b
       THEN [ok |-> TRUE, end |-> c, rep |-> <<"\n">> \o Slice(s, i, c)]
       ELSE NoMatch

\* the four patterns of _normalize, in the order they are applied
MatchRule(rule, s, i) ==
    CASE rule = 1 -> MatchMergedOf(s, i)
      [] rule = 2 -> MatchMergedOnly(s, i)
      [] rule = 3 -> MatchHashStart(s, i)
      [] rule = 4 -> MatchHeatStart(s, i)

\* re.sub from position i on: copy the text up to the leftmost match,
\* replace the match, resume after it
RECURSIVE ReSub(_, _, _)
ReSub(rule, s, i) ==
    LET P == {p \in i..Len(s) : MatchRule(rule, s, p).ok}
    IN IF P = {} THEN SubSeq(s, i, Len(s))
       ELSE LET p == CHOOSE x \in P : \A y \in P : x <= y
                m == MatchRule(rule, s, p)
            IN SubSeq(s, i, p - 1) \o m.rep \o ReSub(rule, s, m.end)

\* the passes from the given rule on, each on the result of the one before
RECURSIVE Passes(_, _)
Passes(rule, text) ==
    IF rule > 4 THEN text ELSE Passes(rule + 1, ReSub(rule, text, 1))

_normalize(text) == Passes(1, text)

----------------------------------------------------------------------------
(* patterns of _parse_heat_sheet, matched at the start of a stripped line *)

\* ^#(\d+)\s+(.*)
ev_re(line) ==
    LET d == SpanEnd(line, 2, Digit)
        w == SpanEnd(line, d, WS)
    IN IF HasLit(line, 1, <<"#">>) /\ d > 2 /\ w > d
       THEN [ok |-> TRUE, g1 |-> Slice(line, 2, d),
             g2 |-> Slice(line, w, FindCh(line, w, "\n"))]
       ELSE NoMatch

\* ^Heat\s+(\d+)\s+of\s+(\d+)  with re.I
heat_of(line) ==
    LET b == SpanEnd(line, 5, WS)
        c == SpanEnd(line, b, Digit)
        d == SpanEnd(line, c, WS)
        f == SpanEnd(line, d + 2, WS)
        g == SpanEnd(line, f, Digit)
    IN IF /\ HasLitI(line, 1, HeatW) /\ b > 5 /\ c > b /\ d > c
          /\ HasLitI(line, d, OfW) /\ f > d + 2 /\ g > f
       THEN [ok |-> TRUE, g1 |-> Slice(line, b, c), g2 |-> Slice(line, f, g)]
       ELSE NoMatch

\* ^Heat\s+(\d+)\b  with re.I
heat_only(line) ==
    LET b == SpanEnd(line, 5, WS)
        c == SpanEnd(line, b, Digit)
    IN IF /\ HasLitI(line, 1, HeatW) /\ b > 5 /\ c > b
          /\ (c > Len(line) \/ line[c] \notin Word)
       THEN [ok |-> TRUE, g1 |-> Slice(line, b, c)]
       ELSE NoMatch

----------------------------------------------------------------------------
(* field extractors *)

\* [A-Za-z'\-]+,\s+[A-Za-z'\-]+(?:\s+[A-Za-z.]+)?  at position i;
\* the result is the position one past the match, 0 when there is none
NameEnd(line, i) ==
    LET a == SpanEnd(line, i, NameCh)
        b == SpanEnd(line, a + 1, WS)
        c == SpanEnd(line, b, NameCh)
        d == SpanEnd(line, c, WS)
        e == SpanEnd(line, d, MidCh)
    IN IF a > i /\ a <= Len(line) /\ line[a] = "," /\ b > a + 1 /\ c > b
       THEN (IF d > c /\ e > d THEN e ELSE c)
       ELSE 0

\* re.search: the leftmost match
_name_from_line(line) ==
    IF \E i \in 1..Len(line) : NameEnd(line, i) > 0
    THEN LET i == CHOOSE p \in 1..Len(line) :
                     /\ NameEnd(line, p) > 0
                     /\ \A q \in 1..(p - 1) : NameEnd(line, q) = 0
         IN Strip(Slice(line, i, NameEnd(line, i)))
    ELSE NoneStr

\* \d+:\d+\.\d+|\d+\.\d+  at position i, first alternative first
SeedEnd(line, i) ==
    LET a == SpanEnd(line, i, Digit)
        b == SpanEnd(line, a + 1, Digit)
        c == SpanEnd(line, b + 1, Digit)
    IN IF /\ a > i /\ a <= Len(line) /\ line[a] = ":" /\ b > a + 1
          /\ b <= Len(line) /\ line[b] = "." /\ c > b + 1
       THEN c
       ELSE IF a > i /\ a <= Len(line) /\ line[a] = "." /\ b > a + 1
       THEN b
       ELSE 0

_seed_from_line(line) ==
    IF \E i \in 1..Len(line) : SeedEnd(line, i) > 0
    THEN LET i == CHOOSE p \in 1..Len(line) :
                     /\ SeedEnd(line, p) > 0
                     /\ \A q \in 1..(p - 1) : SeedEnd(line, q) = 0
         IN Slice(line, i, SeedEnd(line, i))
    ELSE NoneStr

\* (\d+)\s*$  at position i; $ also matches before a final "\n", which
\* \s* takes
LaneEnd(line, i) ==
    LET a == SpanEnd(line, i, Digit)
        b == SpanEnd(line, a, WS)
    IN IF a > i /\ b = Len(line) + 1 THEN a ELSE 0

_lane_from_line(line) ==
    IF \E i \in 1..Len(line) : LaneEnd(line, i) > 0
    THEN LET i == CHOOSE p \in 1..Len(line) :
                     /\ LaneEnd(line, p) > 0
                     /\ \A q \in 1..(p - 1) : LaneEnd(line, q) = 0
         IN ToInt(Slice(line, i, LaneEnd(line, i)))
    ELSE NoneInt

----------------------------------------------------------------------------
(* _parse_heat_sheet: one scanner per call *)

\* scanner state after "cur_ev = None ... cur_total = None"; src is a
\* history field: src[r] is the number of the line events[r] was read from
NewCall(text) ==
    [pc |-> "start", text |-> text, lines |-> <<>>, i |-> 1,
     cur_ev |-> NoneInt, cur_name |-> NoneStr,
     cur_heat |-> NoneInt, cur_total |-> NoneInt,
     events |-> <<>>, src |-> <<>>]

\* the first pattern of the loop body that matches the stripped line
LineKind(line) ==
    IF Len(line) = 0 THEN "blank"
    ELSE IF ev_re(line).ok THEN "event"
    ELSE IF heat_of(line).ok THEN "heat_of"
    ELSE IF heat_only(line).ok THEN "heat_only"
    ELSE "entry"

\* an event header that leaves the total of the previous event in place
OnEvent_KeepTotal(st, line) ==
    [st EXCEPT !.cur_ev = ToInt(ev_re(line).g1),
               !.cur_name = RStripParen(Strip(ev_re(line).g2)),
               !.cur_heat = NoneInt]

\* an event header that leaves the heat of the previous event open
OnEvent_KeepHeat(st, line) ==
    [st EXCEPT !.cur_ev = ToInt(ev_re(line).g1),
               !.cur_name = RStripParen(Strip(ev_re(line).g2)),
               !.cur_total = NoneInt]

\* body of "if m:" after ev_re.match
OnEvent(st, line) ==
    [st EXCEPT !.cur_ev = ToInt(ev_re(line).g1),
               !.cur_name = RStripParen(Strip(ev_re(line).g2)),
               !.cur_heat = NoneInt,
               !.cur_total = NoneInt]

\* a heat-of header read with its two numbers exchanged
OnHeatOf_Swapped(st, line) ==
    [st EXCEPT !.cur_heat = ToInt(heat_of(line).g2),
               !.cur_total = ToInt(heat_of(line).g1)]

\* body of "if m:" after heat_of.match
OnHeatOf(st, line) ==
    [st EXCEPT !.cur_heat = ToInt(heat_of(line).g1),
               !.cur_total = ToInt(heat_of(line).g2)]

\* body of "if m:" after heat_only.match
OnHeatOnly(st, line) ==
    [st EXCEPT !.cur_heat = ToInt(heat_only(line).g1)]

\* the dict appended to events
Record(st, line) ==
    [event_number |-> st.cur_ev,
     event_name   |-> st.cur_name,
     heat         |-> st.cur_heat,
     total_heats  |-> st.cur_total,
     lane         |-> _lane_from_line(line),
     seed_time    |-> _seed_from_line(line),
     swimmer_name |-> _name_from_line(line)]

\* "if cur_ev is not None and cur_heat is not None"
ContextOpen(st) == st.cur_ev # NoneInt /\ st.cur_heat # NoneInt

\* the entry branch: append a record when a name is found
OnEntry(st, line) ==
    IF ContextOpen(st) /\ _name_from_line(line) # NoneStr
    THEN [st EXCEPT !.events = Append(@, Record(st, line)),
                    !.src = Append(@, st.i)]
    ELSE st

\* text = _normalize(text); lines = text.splitlines()
Normalized(st) ==
    [st EXCEPT !.pc = "scan",
               !.text = _normalize(st.text),
               !.lines = SplitLines(_normalize(st.text))]

\* the line the loop is about to read: line = raw.strip()
CurLine(st) == Strip(st.lines[st.i])

\* a loop body whose heat branches lack the "continue": the header line
\* goes on to the entry branch
LoopBody_NoContinue(st) ==
    LET line == CurLine(st)
        kind == LineKind(line)
    IN CASE kind = "blank"     -> st
         [] kind = "event"     -> OnEvent(st, line)
         [] kind = "heat_of"   -> OnEntry(OnHeatOf(st, line), line)
         [] kind = "heat_only" -> OnEntry(OnHeatOnly(st, line), line)
         [] kind = "entry"     -> OnEntry(st, line)

\* one pass through the loop body, up to its "continue" or its end
LoopBody(st) ==
    LET line == CurLine(st)
        kind == LineKind(line)
    IN CASE kind = "blank"     -> st
         [] kind = "event"     -> OnEvent(st, line)
         [] kind = "heat_of"   -> OnHeatOf(st, line)
         [] kind = "heat_only" -> OnHeatOnly(st, line)
         [] kind = "entry"     -> OnEntry(st, line)

ParseStart(c) ==
    /\ call[c].pc = "start"
    /\ call' = [call EXCEPT ![c] = Normalized(call[c])]
    /\ UNCHANGED <<norm, tl, given, ex, crowd>>

AtLine(c, kind) ==
    /\ call[c].pc = "scan"
    /\ call[c].i <= Len(call[c].lines)
    /\ LineKind(CurLine(call[c])) = kind

\* a step whose context variables are globals of the module: every call
\* sees the event, name, heat and total the stepping call has just set
Advance_SharedContext(c, st) ==
    /\ call' = [d \in DOMAIN call |->
                 IF d = c THEN [st EXCEPT !.i = @ + 1]
                 ELSE [call[d] EXCEPT !.cur_ev = st.cur_ev,
                                      !.cur_name = st.cur_name,
                                      !.cur_heat = st.cur_heat,
                                      !.cur_total = st.cur_total]]
    /\ UNCHANGED <<norm, tl, given, ex, crowd>>

Advance(c, st) ==
    /\ call' = [call EXCEPT ![c] = [st EXCEPT !.i = @ + 1]]
    /\ UNCHANGED <<norm, tl, given, ex, crowd>>

SkipBlank(c)      == AtLine(c, "blank") /\ Advance(c, LoopBody(call[c]))
EventHeader(c)    == AtLine(c, "event") /\ Advance(c, LoopBody(call[c]))
HeatOfHeader(c)   == AtLine(c, "heat_of") /\ Advance(c, LoopBody(call[c]))
HeatOnlyHeader(c) == AtLine(c, "heat_only") /\ Advance(c, LoopBody(call[c]))
EntryLine(c)      == AtLine(c, "entry") /\ Advance(c, LoopBody(call[c]))

\* return events
ParseReturn(c) ==
    /\ call[c].pc = "scan"
    /\ call[c].i > Len(call[c].lines)
    /\ call' = [call EXCEPT ![c].pc = "done"]
    /\ UNCHANGED <<norm, tl, given, ex, crowd>>

NextParse ==
    \/ \E c \in DOMAIN call : ParseStart(c)
    \/ \E c \in DOMAIN call : SkipBlank(c)
    \/ \E c \in DOMAIN call : EventHeader(c)
    \/ \E c \in DOMAIN call : HeatOfHeader(c)
    \/ \E c \in DOMAIN call : HeatOnlyHeader(c)
    \/ \E c \in DOMAIN call : EntryLine(c)
    \/ \E c \in DOMAIN call : ParseReturn(c)

----------------------------------------------------------------------------
(* documents: up to MaxLines lines, each one of these *)

MaxLines == 4

LnEvent1  == <<"#","1"," ","I","M">>
LnEvent0  == <<"#","0"," ","F","l","y",")">>
LnMerged  == <<"H","e","a","t"," ","1"," ","o","f"," ","2"," ",
               "(","#","2"," ","I","M",")">>
LnHeat2   == <<"H","e","a","t"," ","2">>
LnHeat0of == <<"h","e","a","t"," ","0"," ","o","f"," ","3">>
LnEntry   == <<"A","l",","," ","B","o"," ","4","7",".","6","4"," ","3">>
LnNoise   == <<"L","a","n","e"," ","4">>

DocLines == {LnEvent1, LnEvent0, LnMerged, LnHeat2, LnHeat0of,
             LnEntry, LnNoise}

Docs == {JoinLines(ls) : ls \in UNION {[1..k -> DocLines] : k \in 0..MaxLines}}

NormIdle  == [pc |-> "idle"]
TlIdle    == [pc |-> "idle"]
GivenNone == [kind |-> "none"]
ExIdle    == [pc |-> "idle"]
CrowdIdle == [pc |-> "idle"]

InitParse ==
    /\ \E text \in Docs : call = [c \in {1} |-> NewCall(text)]
    /\ norm = NormIdle
    /\ ex = ExIdle
    /\ crowd = CrowdIdle
    /\ tl = TlIdle
    /\ given = GivenNone

SpecParse == InitParse /\ [][NextParse]_vars

----------------------------------------------------------------------------
(* the document position of a record, read off the normalized lines *)

KindAt(st, j) == LineKind(Strip(st.lines[j]))

MaxOf(S) == CHOOSE x \in S : \A y \in S : y <= x

\* event header lines before line ln
EventsBefore(st, ln) == {j \in 1..(ln - 1) : KindAt(st, j) = "event"}

\* heat header lines after line a and before line ln
HeatsBetween(st, a, ln) ==
    {j \in (a + 1)..(ln - 1) : KindAt(st, j) \in {"heat_of", "heat_only"}}

HeatOfsBetween(st, a, ln) ==
    {j \in (a + 1)..(ln - 1) : KindAt(st, j) = "heat_of"}

EventNumberAt(st, j) == ToInt(ev_re(Strip(st.lines[j])).g1)

HeatNumberAt(st, j) ==
    IF KindAt(st, j) = "heat_of"
    THEN ToInt(heat_of(Strip(st.lines[j])).g1)
    ELSE ToInt(heat_only(Strip(st.lines[j])).g1)

TotalAt(st, j) == ToInt(heat_of(Strip(st.lines[j])).g2)

\* line ln has no open event, or no open heat in its event
NoContextAt(st, ln) ==
    \/ EventsBefore(st, ln) = {}
    \/ HeatsBetween(st, MaxOf(EventsBefore(st, ln)), ln) = {}

\* C1: every record carries the number of the last event header before its
\* entry line, and the number of the last heat header (either form) between
\* that event header and the entry line.
C1_RecordContext ==
    \A c \in DOMAIN call :
        \A r \in 1..Len(call[c].events) :
            LET st == call[c]
                ln == st.src[r]
                E  == EventsBefore(st, ln)
                H  == HeatsBetween(st, MaxOf(E), ln)
            IN /\ E # {}
               /\ st.events[r].event_number = EventNumberAt(st, MaxOf(E))
               /\ H # {}
               /\ st.events[r].heat = HeatNumberAt(st, MaxOf(H))

\* a finished parse with a record that has two event headers before it and
\* two heat headers inside its event
C1_Witness ==
    \E c \in DOMAIN call :
        /\ call[c].pc = "done"
        /\ \E r \in 1..Len(call[c].events) :
              LET st == call[c]
                  E  == EventsBefore(st, st.src[r])
              IN /\ Cardinality(E) >= 2
                 /\ Cardinality(HeatsBetween(st, MaxOf(E), st.src[r])) >= 2

\* C2: a line read while no event is open, or no heat is open in the event,
\* adds no record; a step adds at most one record, and that record is read
\* from the line of the step (nothing is kept back for later).
C2_NoRecordWithoutContext ==
    [][\A c \in DOMAIN call :
          LET s == call[c]
              t == call'[c]
          IN (s.pc = "scan" /\ s.i <= Len(s.lines)) =>
                /\ NoContextAt(s, s.i) => t.events = s.events
                /\ t.events # s.events =>
                      /\ Len(t.events) = Len(s.events) + 1
                      /\ SubSeq(t.events, 1, Len(s.events)) = s.events
                      /\ t.events[Len(t.events)].swimmer_name
                            = _name_from_line(CurLine(s))]_vars

\* a finished parse that met a name-bearing line before the first event
\* header and another one after an event header but before its first heat
C2_Witness ==
    \E c \in DOMAIN call :
        LET st == call[c]
            Named == {j \in 1..Len(st.lines) :
                         /\ KindAt(st, j) = "entry"
                         /\ _name_from_line(Strip(st.lines[j])) # NoneStr}
        IN /\ st.pc = "done"
           /\ \E j \in Named : EventsBefore(st, j) = {}
           /\ \E j \in Named : EventsBefore(st, j) # {} /\ NoContextAt(st, j)

\* C3: total_heats of a record is the total of the last heat-of header
\* between the last event header and the entry line, and unset when there is
\* none.
C3_TotalHeats ==
    \A c \in DOMAIN call :
        \A r \in 1..Len(call[c].events) :
            LET st == call[c]
                ln == st.src[r]
                E  == EventsBefore(st, ln)
                HO == HeatOfsBetween(st, MaxOf(E), ln)
            IN /\ E # {}
               /\ st.events[r].total_heats =
                     IF HO = {} THEN NoneInt ELSE TotalAt(st, MaxOf(HO))

\* a finished parse with a record whose heat was opened by a heat-only
\* header and whose total comes from an earlier heat-of header of the same
\* event
C3_Witness ==
    \E c \in DOMAIN call :
        LET st == call[c]
            Ev(r) == MaxOf(EventsBefore(st, st.src[r]))
        IN /\ st.pc = "done"
           /\ \E r \in 1..Len(st.events) :
                 /\ st.events[r].total_heats # NoneInt
                 /\ KindAt(st, MaxOf(HeatsBetween(st, Ev(r), st.src[r])))
                       = "heat_only"

\* C4: every record has event_number >= 1, heat >= 1 and a non-empty
\* swimmer_name.
C4_PositiveNumbers ==
    \A c \in DOMAIN call :
        \A r \in 1..Len(call[c].events) :
            /\ call[c].events[r].event_number >= 1
            /\ call[c].events[r].heat >= 1
            /\ call[c].events[r].swimmer_name # NoneStr
            /\ Len(call[c].events[r].swimmer_name) >= 1

----------------------------------------------------------------------------
(* one heat stated by a merged header line and by two separate lines *)

MaxEntries == 2

LnEntryB == <<"O","'","D","e","a",","," ","C","y"," ","J"," ",
              "1",":","0","5",".","3","2">>

NmPlain  == <<"I","M">>
NmDigits == <<"5","0"," ","F","l","y">>
NmParen  == <<"A"," ","(","B",")"," ","C">>

HdrHeats  == {<<"3">>}
HdrTotals == {NoneStr, <<"5">>}
HdrEvents == {<<"2">>}
\* the last name puts name-shaped text into the event header of the
\* separate form and, after _normalize, into the heat header of the merged
HdrNames  == {NmPlain, NmDigits, NmParen,
              <<"X",")"," ","A","l",","," ","B","o">>}

\* what stands before the header: nothing, or an earlier event with a total
HdrPrefixes == {<<>>, <<LnEvent1, LnHeat0of, LnEntry>>}

HdrEntries ==
    UNION {[1..k -> {LnEntry, LnEntryB, LnNoise}] : k \in 0..MaxEntries}

\* "Heat N of M (#E Name)" or "Heat N (#E Name)"
MergedHeader(g) ==
    HeatW \o <<" ">> \o g.heat
        \o (IF g.total = NoneStr THEN <<>>
            ELSE <<" ">> \o OfW \o <<" ">> \o g.total)
        \o <<" ", "(", "#">> \o g.event \o <<" ">> \o g.name \o <<")">>

\* "#E Name" then "Heat N of M" or "Heat N"
SeparateHeader(g) ==
    << <<"#">> \o g.event \o <<" ">> \o g.name,
       HeatW \o <<" ">> \o g.heat
           \o (IF g.total = NoneStr THEN <<>>
               ELSE <<" ">> \o OfW \o <<" ">> \o g.total) >>

MergedDoc(g)   == JoinLines(g.prefix \o <<MergedHeader(g)>> \o g.entries)
SeparateDoc(g) == JoinLines(g.prefix \o SeparateHeader(g) \o g.entries)

\* call 1 parses the merged document, call 2 the separate one
InitMerged ==
    /\ \E h \in HdrHeats, t \in HdrTotals, e \in HdrEvents, n \in HdrNames,
          p \in HdrPrefixes, es \in HdrEntries :
          given = [kind |-> "merged", heat |-> h, total |-> t, event |-> e,
                   name |-> n, prefix |-> p, entries |-> es]
    /\ call = [c \in {1, 2} |->
                 IF c = 1 THEN NewCall(MergedDoc(given))
                 ELSE NewCall(SeparateDoc(given))]
    /\ norm = NormIdle
    /\ ex = ExIdle
    /\ crowd = CrowdIdle
    /\ tl = TlIdle

SpecMerged == InitMerged /\ [][NextParse]_vars

BothDone == \A c \in DOMAIN call : call[c].pc = "done"

\* the entry lines of the input that carry a name
NamedEntries(g) ==
    {j \in 1..Len(g.entries) : _name_from_line(g.entries[j]) # NoneStr}

\* the records of call c that come from the entry lines under the header
\* are the last ones, one per named entry line, and carry the header's data
HeaderRecords(c, g) ==
    LET ev == call[c].events
        k  == Cardinality(NamedEntries(g))
    IN /\ Len(ev) >= k
       /\ \A r \in (Len(ev) - k + 1)..Len(ev) :
             /\ ev[r].event_number = ToInt(g.event)
             /\ ev[r].event_name = g.name
             /\ ev[r].heat = ToInt(g.heat)
             /\ ev[r].total_heats =
                   IF g.total = NoneStr THEN NoneInt ELSE ToInt(g.total)

----------------------------------------------------------------------------
(* _normalize applied to its own result *)

MaxFrags == 3

FrHash   == <<"#","5">>
FrHeat   == <<"H","e","a","t"," ","3">>
FrOf     == <<" ","o","f"," ","4"," ">>
FrOpen   == <<"(">>
FrClose  == <<")">>
FrSpace  == <<" ">>
FrLine   == <<"\n">>
FrLetter == <<"a">>

NormFrags == {FrHash, FrHeat, FrOf, FrOpen, FrClose, FrSpace, FrLine, FrLetter}

RECURSIVE Concat(_)
Concat(fs) == IF Len(fs) = 0 THEN <<>> ELSE fs[1] \o Concat(Tail(fs))

NormInputs ==
    {Concat(fs) : fs \in UNION {[1..k -> NormFrags] : k \in 0..MaxFrags}}

InitNorm ==
    /\ \E x \in NormInputs : norm = [pc |-> "start", x |-> x, y |-> x, z |-> x]
    /\ call = <<>>
    /\ tl = TlIdle
    /\ ex = ExIdle
    /\ crowd = CrowdIdle
    /\ given = GivenNone

\* y = _normalize(x)
NormFirst ==
    /\ norm.pc = "start"
    /\ norm' = [norm EXCEPT !.pc = "once", !.y = _normalize(norm.x)]
    /\ UNCHANGED <<call, tl, given, ex, crowd>>

\* z = _normalize(y)
NormAgain ==
    /\ norm.pc = "once"
    /\ norm' = [norm EXCEPT !.pc = "twice", !.z = _normalize(norm.y)]
    /\ UNCHANGED <<call, tl, given, ex, crowd>>

NextNorm == NormFirst \/ NormAgain

SpecNorm == InitNorm /\ [][NextNorm]_vars

\* C6: _normalize(_normalize(x)) = _normalize(x) for every text x.
C6_NormalizeIdempotent == norm.pc = "twice" => norm.z = norm.y

----------------------------------------------------------------------------
(* timeline_estimate.  Times are whole hundredths of a second: a datetime  *)
(* is counted from 00:00 of the current date, and the seed times of the    *)
(* input have at most two decimals, so that float arithmetic and the       *)
(* microsecond rounding of timedelta are exact on them.                    *)

PerSecond == 100

\* the 60.0 of "_t2s(t) if t else 60.0" and of per_heat_seconds.get(.., 60.0)
DefaultDuration == 60 * PerSecond

\* float() of "<digits>.<digits>"
FloatOf(s) ==
    LET d  == FindCh(s, 1, ".")
        fp == SubSeq(s, d + 1, Len(s))
    IN ToInt(Slice(s, 1, d)) * PerSecond
         + (IF Len(fp) = 0 THEN 0
            ELSE IF Len(fp) = 1 THEN 10 * ToInt(fp)
            ELSE ToInt(SubSeq(fp, 1, 2)))

_t2s(t) ==
    LET s == Strip(t)
        c == FindCh(s, 1, ":")
    IN IF c <= Len(s)
       THEN ToInt(Slice(s, 1, c)) * 60 * PerSecond
              + FloatOf(SubSeq(s, c + 1, Len(s)))
       ELSE FloatOf(s)

\* the digits an int can have and still be added to a float: from
\* FloatDigits digits on, "int(m) * 60 + float(s)" raises OverflowError
\* (sys.float_info.max is about 1.8e308)
FloatDigits == 309

\* _t2s raises: the minutes, leading zeros apart, are too long for a float
T2sRaises(t) ==
    LET s == Strip(t)
        c == FindCh(s, 1, ":")
        z == SpanEnd(s, 1, {"0"})
    IN c <= Len(s) /\ c - z >= FloatDigits

\* re.match(r"^\d{1,2}:\d{2}$", hhmm) on the stripped string
IsHHMM(s) ==
    LET c == FindCh(s, 1, ":")
    IN /\ c \in {2, 3}
       /\ Len(s) = c + 2
       /\ \A k \in 1..Len(s) : k # c => s[k] \in Digit

\* a conversion that wraps an hour or a minute out of range instead of
\* clamping it
_parse_hhmm_Wrapping(hhmm) ==
    LET s == Strip(hhmm)
        c == FindCh(s, 1, ":")
        h == ToInt(Slice(s, 1, c))
        m == ToInt(SubSeq(s, c + 1, Len(s)))
    IN IF ~IsHHMM(s) THEN 12 * 3600 * PerSecond
       ELSE ((h % 24) * 3600 + (m % 60) * 60) * PerSecond

_parse_hhmm_to_today(hhmm) ==
    LET s == Strip(hhmm)
        c == FindCh(s, 1, ":")
        h == ToInt(Slice(s, 1, c))
        m == ToInt(SubSeq(s, c + 1, Len(s)))
    IN IF ~IsHHMM(s) THEN 12 * 3600 * PerSecond
       ELSE ((IF h > 23 THEN 23 ELSE h) * 3600
              + (IF m > 59 THEN 59 ELSE m) * 60) * PerSecond

\* ev["heat"] or 0
HeatOr0(h) == IF h = NoneInt THEN 0 ELSE h

\* (e["event_number"], e["heat"] or 0)
KeyOf(e) == <<e.event_number, HeatOr0(e.heat)>>

\* tuple comparison
KeyLess(a, b) == a[1] < b[1] \/ (a[1] = b[1] /\ a[2] < b[2])

\* an insertion that puts a record before the records of its own key
InsertByKey_BeforeEqual(sorted, e) ==
    LET n == Cardinality({j \in 1..Len(sorted) :
                             KeyLess(KeyOf(sorted[j]), KeyOf(e))})
    IN SubSeq(sorted, 1, n) \o <<e>> \o SubSeq(sorted, n + 1, Len(sorted))

\* sorted(events, key=...): a stable sort, as insertion from the left
InsertByKey(sorted, e) ==
    LET n == Cardinality({j \in 1..Len(sorted) :
                             ~KeyLess(KeyOf(e), KeyOf(sorted[j]))})
    IN SubSeq(sorted, 1, n) \o <<e>> \o SubSeq(sorted, n + 1, Len(sorted))

RECURSIVE SortedByKey(_)
SortedByKey(es) ==
    IF Len(es) = 0 THEN <<>>
    ELSE InsertByKey(SortedByKey(SubSeq(es, 1, Len(es) - 1)), es[Len(es)])

\* sorted({...}) of a set of keys
RECURSIVE SortedKeys(_)
SortedKeys(S) ==
    IF S = {} THEN <<>>
    ELSE LET m == CHOOSE x \in S : \A y \in S : x = y \/ KeyLess(x, y)
         IN <<m>> \o SortedKeys(S \ {m})

\* truth value of ev.get("seed_time")
HasSeed(e) == e.seed_time # NoneStr /\ Len(e.seed_time) > 0

\* a loop that takes the seed time of the first record of every heat,
\* whether it has one or not
FirstSeenStep_AnyFirst(fs, e) ==
    IF KeyOf(e) \notin DOMAIN fs
    THEN (KeyOf(e) :> e.seed_time) @@ fs
    ELSE fs

\* body of "for ev in events" at lines 257-260
FirstSeenStep(fs, e) ==
    IF KeyOf(e) \notin DOMAIN fs /\ HasSeed(e)
    THEN (KeyOf(e) :> e.seed_time) @@ fs
    ELSE fs

\* the loop at lines 262-263
PerHeatSeconds(fs) ==
    [key \in DOMAIN fs |->
        IF fs[key] # NoneStr /\ Len(fs[key]) > 0 THEN _t2s(fs[key])
        ELSE DefaultDuration]

\* per_heat_seconds.get(key, 60.0)
DurationOf(phs, key) ==
    IF key \in DOMAIN phs THEN phs[key] ELSE DefaultDuration

\* a walk that also adds the event gap before the first heat
WalkStep_GapAtFirst(t, key) ==
    LET cur == IF key[1] # t.last_event
               THEN t.cursor + t.sbe * PerSecond ELSE t.cursor
    IN [t EXCEPT !.cursor = cur + DurationOf(t.per_heat_seconds, key)
                              + t.sbh * PerSecond,
                 !.schedule_map = (key :> cur) @@ t.schedule_map,
                 !.last_event = key[1]]

\* a walk that puts the gap between events in the place of the gap between
\* heats at a change of event
WalkStep_OneGap(t, key) ==
    LET cur == IF t.last_event # NoneInt /\ key[1] # t.last_event
               THEN t.cursor + (t.sbe - t.sbh) * PerSecond ELSE t.cursor
    IN [t EXCEPT !.cursor = cur + DurationOf(t.per_heat_seconds, key)
                              + t.sbh * PerSecond,
                 !.schedule_map = (key :> cur) @@ t.schedule_map,
                 !.last_event = key[1]]

\* body of "for (ev_no, heat_no) in seen_pairs" at lines 272-278
WalkStep(t, key) ==
    LET cur == IF t.last_event # NoneInt /\ key[1] # t.last_event
               THEN t.cursor + t.sbe * PerSecond ELSE t.cursor
    IN [t EXCEPT !.cursor = cur + DurationOf(t.per_heat_seconds, key)
                              + t.sbh * PerSecond,
                 !.schedule_map = (key :> cur) @@ t.schedule_map,
                 !.last_event = key[1]]

\* one item of the returned list
OutItem(t, e) ==
    [swimmer_name |-> e.swimmer_name, event_number |-> e.event_number,
     event_name |-> e.event_name, heat |-> e.heat,
     total_heats |-> e.total_heats, lane |-> e.lane,
     seed_time |-> e.seed_time,
     estimated_dt |-> IF KeyOf(e) \in DOMAIN t.schedule_map
                      THEN t.schedule_map[KeyOf(e)] ELSE NoneInt]

\* a request after line 250: parsed is what _parse_heat_sheet returned (the
\* records in document order), kept as a history field
NewTimeline(parsed, hhmm, sbh, sbe) ==
    [pc |-> "start", start_hhmm |-> hhmm,
     sbh |-> sbh, sbe |-> sbe,
     parsed |-> parsed, events |-> <<>>, i |-> 1,
     first_seen |-> <<>>, per_heat_seconds |-> <<>>,
     start_dt |-> 0, cursor |-> 0, last_event |-> NoneInt,
     seen_pairs |-> <<>>, k |-> 1, schedule_map |-> <<>>, out |-> <<>>]

\* lines 251-255: sort, empty dicts
TlSort ==
    /\ tl.pc = "start"
    /\ tl' = [tl EXCEPT !.pc = "first_seen",
                        !.events = SortedByKey(tl.parsed),
                        !.i = 1]
    /\ UNCHANGED <<call, norm, given, ex, crowd>>

\* lines 257-260, one record
TlFirstSeen ==
    /\ tl.pc = "first_seen"
    /\ tl.i <= Len(tl.events)
    /\ tl' = [tl EXCEPT !.first_seen = FirstSeenStep(@, tl.events[tl.i]),
                        !.i = @ + 1]
    /\ UNCHANGED <<call, norm, given, ex, crowd>>

\* lines 262-271: durations, start of the walk, the sorted heat keys; an
\* exception of _t2s is caught nowhere and ends the request
TlDurations ==
    /\ tl.pc = "first_seen"
    /\ tl.i > Len(tl.events)
    /\ tl' = IF \E key \in DOMAIN tl.first_seen : T2sRaises(tl.first_seen[key])
             THEN [tl EXCEPT !.pc = "error"]
             ELSE
              [tl EXCEPT
                 !.pc = "walk",
                 !.per_heat_seconds = PerHeatSeconds(tl.first_seen),
                 !.start_dt = _parse_hhmm_to_today(tl.start_hhmm),
                 !.cursor = _parse_hhmm_to_today(tl.start_hhmm),
                 !.last_event = NoneInt,
                 !.seen_pairs =
                     SortedKeys({KeyOf(tl.events[j]) : j \in 1..Len(tl.events)}),
                 !.k = 1]
    /\ UNCHANGED <<call, norm, given, ex, crowd>>

\* lines 272-278, one heat key
TlWalk ==
    /\ tl.pc = "walk"
    /\ tl.k <= Len(tl.seen_pairs)
    /\ tl' = [WalkStep(tl, tl.seen_pairs[tl.k]) EXCEPT !.k = @ + 1]
    /\ UNCHANGED <<call, norm, given, ex, crowd>>

\* lines 281-295
TlReturn ==
    /\ tl.pc = "walk"
    /\ tl.k > Len(tl.seen_pairs)
    /\ tl' = [tl EXCEPT !.pc = "done",
                        !.out = [j \in 1..Len(tl.events) |->
                                    OutItem(tl, tl.events[j])]]
    /\ UNCHANGED <<call, norm, given, ex, crowd>>

NextTimeline == TlSort \/ TlFirstSeen \/ TlDurations \/ TlWalk \/ TlReturn

----------------------------------------------------------------------------
(* requests: the records of up to MaxRows swimmer rows, a start time and   *)
(* the two gaps.  Row j is the line "<name j>" or "<name j> <seed>" under  *)
(* the headers "#<event> IM" and "Heat <heat>"; its record is the one the  *)
(* entry branch of _parse_heat_sheet appends for that line.                *)

MaxRows == 3

SeedLong  == <<"1",":","0","5",".","3","2">>
SeedShort == <<"4","7",".","6","4">>

RowKeys  == {<<1, 1>>, <<1, 2>>, <<2, 1>>}
RowSeeds == {NoneStr, SeedLong, SeedShort}

RowNames == << <<"A","l",","," ","B","o">>, <<"C","y",","," ","D","i">>,
               <<"E","d",","," ","F","y">>, <<"G","u","s",","," ","H","a","l">>,
               <<"I","a","n",","," ","J","o">> >>

Rows == [key : RowKeys, seed : RowSeeds]

\* the line of the j-th row
RowLine(row, j) ==
    IF row.seed = NoneStr THEN RowNames[j]
    ELSE RowNames[j] \o <<" ">> \o row.seed

\* the record of the j-th row
RowRecord(row, j) ==
    Record([cur_ev |-> row.key[1], cur_name |-> <<"I","M">>,
            cur_heat |-> row.key[2], cur_total |-> NoneInt],
           RowLine(row, j))

RowRecords(rows) == [j \in 1..Len(rows) |-> RowRecord(rows[j], j)]

HhmmEight == <<"0","8",":","0","0">>
HhmmLate  == <<"9",":","3","0">>

StartTimes == {HhmmEight, HhmmLate}

\* (seconds_between_heats, seconds_between_events): the defaults of the
\* form, and a negative gap between heats
Gaps == {<<20, 60>>, <<0 - 100, 45>>}

InitTimeline ==
    /\ \E rows \in UNION {[1..n -> Rows] : n \in 0..MaxRows},
          hhmm \in StartTimes, g \in Gaps :
          /\ given = [kind |-> "timeline", rows |-> rows]
          /\ tl = NewTimeline(RowRecords(rows), hhmm, g[1], g[2])
    /\ call = <<>>
    /\ norm = NormIdle
    /\ ex = ExIdle
    /\ crowd = CrowdIdle

SpecTimeline == InitTimeline /\ [][NextTimeline]_vars

----------------------------------------------------------------------------
(* requests with a seed time whose minutes have FloatDigits digits: the    *)
(* row "<name> 99...9:05.32", which _seed_from_line returns whole          *)

MaxSeedRows == 2

SeedHuge == [j \in 1..FloatDigits |-> "9"] \o <<":","0","5",".","3","2">>

\* the record of the j-th row: that of the row without the seed, with the
\* seed and the lane read off the end of the seed
SeedRowRecord(row, j) ==
    [RowRecord([row EXCEPT !.seed = NoneStr], j) EXCEPT
        !.seed_time = row.seed,
        !.lane = IF row.seed = NoneStr THEN NoneInt
                 ELSE _lane_from_line(SubSeq(row.seed, Len(row.seed) - 4,
                                             Len(row.seed)))]

InitSeed ==
    /\ \E rows \in UNION {[1..n -> [key : RowKeys,
                                    seed : {NoneStr, SeedShort, SeedHuge}]] :
                             n \in 0..MaxSeedRows} :
          /\ given = [kind |-> "seed", rows |-> rows]
          /\ tl = NewTimeline([j \in 1..Len(rows) |-> SeedRowRecord(rows[j], j)],
                              HhmmEight, 20, 60)
    /\ call = <<>>
    /\ norm = NormIdle
    /\ ex = ExIdle
    /\ crowd = CrowdIdle

SpecSeed == InitSeed /\ [][NextTimeline]_vars

----------------------------------------------------------------------------
(* requests with any start_hhmm of up to MaxHhmmLen characters, for one    *)
(* row without a seed time                                                 *)

MaxHhmmLen == 5

HhmmChars == {"2", "7", ":", " ", "x"}

InitHhmm ==
    /\ \E hhmm \in UNION {[1..n -> HhmmChars] : n \in 0..MaxHhmmLen} :
          /\ given = [kind |-> "hhmm", hhmm |-> hhmm]
          /\ tl = NewTimeline(RowRecords(<<[key |-> <<1, 1>>, seed |-> NoneStr]>>),
                              hhmm, 20, 60)
    /\ call = <<>>
    /\ norm = NormIdle
    /\ ex = ExIdle
    /\ crowd = CrowdIdle

SpecHhmm == InitHhmm /\ [][NextTimeline]_vars

----------------------------------------------------------------------------
(* the timeline claims *)

\* the heat keys of the parsed records
KeySet == {KeyOf(tl.parsed[j]) : j \in 1..Len(tl.parsed)}

\* k is the least key; p is the key just before k
IsFirstKey(k) == \A o \in KeySet : o = k \/ KeyLess(k, o)
IsNextKey(p, k) ==
    /\ KeyLess(p, k)
    /\ ~\E o \in KeySet : KeyLess(p, o) /\ KeyLess(o, k)

\* a time of day
Clock(h, m, sec) == ((h * 60 + m) * 60 + sec) * PerSecond

\* the start time the request names
RequestedStart ==
    IF tl.start_hhmm = HhmmEight THEN Clock(8, 0, 0) ELSE Clock(9, 30, 0)

\* the duration the walk assumes for a key
AssumedDuration(k) == DurationOf(tl.per_heat_seconds, k)

\* C7: when the estimate is done every heat key has a start; the least key
\* starts at the requested start time, and every other key starts at the
\* start of the key before it plus that key's assumed duration plus
\* seconds_between_heats, plus seconds_between_events exactly when the
\* two keys differ in the event number.
C7_WalkStartTimes ==
    tl.pc = "done" =>
        /\ DOMAIN tl.schedule_map = KeySet
        /\ \A k \in KeySet :
              IsFirstKey(k) => tl.schedule_map[k] = RequestedStart
        /\ \A p, k \in KeySet :
              IsNextKey(p, k) =>
                  tl.schedule_map[k] =
                      tl.schedule_map[p] + AssumedDuration(p)
                        + tl.sbh * PerSecond
                        + (IF k[1] # p[1] THEN tl.sbe * PerSecond ELSE 0)

\* an estimate of two heats of one event and a heat of another, one of
\* them with a seed time
C7_Witness ==
    /\ tl.pc = "done"
    /\ KeySet = RowKeys
    /\ tl.sbe # 0
    /\ \E k \in KeySet : AssumedDuration(k) # DefaultDuration

\* C8: when the estimate is done, of two heat keys the greater never
\* starts before the lesser.
C8_Monotone ==
    tl.pc = "done" =>
        \A k1, k2 \in DOMAIN tl.schedule_map :
            KeyLess(k1, k2) => tl.schedule_map[k2] >= tl.schedule_map[k1]

\* two heats of event 1 and one heat of event 2, no seed times, gaps of
\* 20 and 60 seconds, start "08:00"
ScenarioD ==
    /\ KeySet = {<<1, 1>>, <<1, 2>>, <<2, 1>>}
    /\ \A j \in 1..Len(tl.parsed) : ~HasSeed(tl.parsed[j])
    /\ tl.sbh = 20
    /\ tl.sbe = 60
    /\ tl.start_hhmm = HhmmEight

\* C9 as stated: in Scenario D heat (1,1) is at 08:00:00, heat (1,2) at
\* 08:01:20 and heat (2,1) at 08:03:20.
C9_ScenarioD ==
    (tl.pc = "done" /\ ScenarioD) =>
        /\ tl.schedule_map[<<1, 1>>] = Clock(8, 0, 0)
        /\ tl.schedule_map[<<1, 2>>] = Clock(8, 1, 20)
        /\ tl.schedule_map[<<2, 1>>] = Clock(8, 3, 20)

\* C9 amended: in Scenario D heat (1,1) is at 08:00:00, heat (1,2) at
\* 08:01:20 and heat (2,1) at 08:03:40: after heat (1,2) come its 60 s, the
\* 20 s between heats and the 60 s between events.
C9_ScenarioDAmended ==
    (tl.pc = "done" /\ ScenarioD) =>
        /\ tl.schedule_map[<<1, 1>>] = Clock(8, 0, 0)
        /\ tl.schedule_map[<<1, 2>>] = Clock(8, 1, 20)
        /\ tl.schedule_map[<<2, 1>>] = Clock(8, 3, 40)

C9_Witness == tl.pc = "done" /\ ScenarioD /\ Len(tl.out) = 3

\* the records of key k that carry a seed time, by their place in the
\* document
Seeded(k) ==
    {j \in 1..Len(tl.parsed) :
        KeyOf(tl.parsed[j]) = k /\ tl.parsed[j].seed_time # NoneStr}

FirstSeeded(k) == CHOOSE j \in Seeded(k) : \A o \in Seeded(k) : j <= o

\* minutes*60 + seconds of the seed times of the requests, in hundredths
\* of a second (Scenario E: 65.32 s and 47.64 s)
SeedSeconds(seed) ==
    CASE seed = SeedLong  -> 6532
      [] seed = SeedShort -> 4764

\* C10: once the durations are computed, the assumed duration of a heat
\* key is the converted seed time of the first record of that key, in
\* document order, that carries a seed time, whatever the records before
\* and after it carry; the default of 60 seconds is taken exactly when no
\* record of the key carries a seed time.
C10_AssumedDuration ==
    tl.pc \in {"walk", "done"} =>
        \A k \in KeySet :
            /\ Seeded(k) # {} =>
                  AssumedDuration(k) =
                      SeedSeconds(tl.parsed[FirstSeeded(k)].seed_time)
            /\ Seeded(k) = {} => AssumedDuration(k) = 60 * PerSecond
            /\ k \notin DOMAIN tl.per_heat_seconds <=> Seeded(k) = {}

\* a heat whose first record has no seed time, whose second has one and
\* whose third has another
C10_Witness ==
    /\ tl.pc = "done"
    /\ \E k \in KeySet : \E a, b, c \in 1..Len(tl.parsed) :
          /\ a < b /\ b < c
          /\ \A j \in {a, b, c} : KeyOf(tl.parsed[j]) = k
          /\ ~HasSeed(tl.parsed[a])
          /\ HasSeed(tl.parsed[b]) /\ HasSeed(tl.parsed[c])
          /\ tl.parsed[b].seed_time # tl.parsed[c].seed_time
          /\ AssumedDuration(k) # DefaultDuration

\* C11: an estimate never ends in an exception, whatever seed times its
\* records carry; when it is done every heat key has a start and every
\* record an item, and a heat whose seed time cannot be converted has the
\* default duration.
C11_SeedNeverAborts ==
    /\ tl.pc # "error"
    /\ tl.pc = "done" =>
          /\ DOMAIN tl.schedule_map = KeySet
          /\ Len(tl.out) = Len(tl.parsed)
          /\ \A k \in KeySet :
                (Seeded(k) # {} /\ T2sRaises(tl.parsed[FirstSeeded(k)].seed_time))
                    => AssumedDuration(k) = DefaultDuration

\* start_hhmm without the white space around it, and whether it has the
\* shape H:MM or HH:MM
TrimmedHhmm == Strip(tl.start_hhmm)
HasShape(s) ==
    /\ Len(s) \in {4, 5}
    /\ s[Len(s) - 2] = ":"
    /\ \A j \in 1..Len(s) : j # Len(s) - 2 => s[j] \in Digit
ShapeHour(s) == ToInt(SubSeq(s, 1, Len(s) - 3))
ShapeMinute(s) == ToInt(SubSeq(s, Len(s) - 1, Len(s)))
Least(a, b) == IF a < b THEN a ELSE b

\* C12: no start_hhmm ends the request; once the start is computed it is
\* a time of day with hour 0..23, minute 0..59 and second 0: for a string
\* of the shape H:MM or HH:MM the hour min(H, 23) and the minute
\* min(MM, 59), for every other string 12:00:00.
C12_StartClamped ==
    /\ tl.pc # "error"
    /\ tl.pc \in {"walk", "done"} =>
          /\ \E h \in 0..23, m \in 0..59 : tl.start_dt = Clock(h, m, 0)
          /\ tl.start_dt =
                IF HasShape(TrimmedHhmm)
                THEN Clock(Least(ShapeHour(TrimmedHhmm), 23),
                           Least(ShapeMinute(TrimmedHhmm), 59), 0)
                ELSE Clock(12, 0, 0)

\* a start of the shape HH:MM with the hour above 23 and the minute
\* above 59
C12_Witness ==
    /\ tl.pc = "done"
    /\ HasShape(TrimmedHhmm)
    /\ ShapeHour(TrimmedHhmm) > 23
    /\ ShapeMinute(TrimmedHhmm) > 59

----------------------------------------------------------------------------
(* extract_swimmer_events: the parsed records, sorted and filtered by name *)

\* swimmer_name.lower() in e["swimmer_name"].lower()
NameHas(name, q) == \E i \in 1..(Len(name) + 1) : HasLitI(name, i, q)

\* the condition of the list comprehension at line 100
Matches(e, q) ==
    /\ e.swimmer_name # NoneStr
    /\ Len(e.swimmer_name) > 0
    /\ NameHas(e.swimmer_name, q)

\* lines 98-101; parsed is what _parse_heat_sheet returned
ExtractEvents ==
    /\ ex.pc = "start"
    /\ ex' = [ex EXCEPT
                 !.pc = "done",
                 !.events = SortedByKey(ex.parsed),
                 !.matched = LET Test(e) == Matches(e, ex.swimmer_name)
                             IN SelectSeq(SortedByKey(ex.parsed), Test)]
    /\ UNCHANGED <<call, norm, tl, given, crowd>>

\* the names RowNames are searched for
Queries == {<<>>, <<"a","L">>, <<"Y">>, <<",", " ">>, <<"z">>}

InitExtract ==
    /\ \E rows \in UNION {[1..n -> Rows] : n \in 0..MaxRows}, q \in Queries :
          /\ given = [kind |-> "extract", rows |-> rows]
          /\ ex = [pc |-> "start", swimmer_name |-> q,
                   parsed |-> RowRecords(rows), events |-> <<>>,
                   matched |-> <<>>]
    /\ call = <<>>
    /\ norm = NormIdle
    /\ tl = TlIdle
    /\ crowd = CrowdIdle

SpecExtract == InitExtract /\ [][ExtractEvents]_vars

\* a text in lower case
LowerText(t) == [j \in 1..Len(t) |-> Lower(t[j])]

\* q occurs in name when case is set aside
OccursIn(q, name) ==
    \E a \in 1..(Len(name) + 1) :
        /\ a + Len(q) - 1 <= Len(name)
        /\ SubSeq(LowerText(name), a, a + Len(q) - 1) = LowerText(q)

\* C13: the records a finished extract returns are records of the parse,
\* each taken from a place of its own, the records of one (event_number,
\* heat) in the order of their places; and the name of every one of them
\* contains the query when case is set aside.
C13_FilterSubset ==
    ex.pc = "done" =>
        /\ \E f \in [1..Len(ex.matched) -> 1..Len(ex.parsed)] :
              /\ \A i \in 1..Len(ex.matched) : ex.parsed[f[i]] = ex.matched[i]
              /\ \A i, j \in 1..Len(ex.matched) : i # j => f[i] # f[j]
              /\ \A i, j \in 1..Len(ex.matched) :
                    (i < j /\ KeyOf(ex.matched[i]) = KeyOf(ex.matched[j]))
                        => f[i] < f[j]
        /\ \A i \in 1..Len(ex.matched) :
              OccursIn(ex.swimmer_name, ex.matched[i].swimmer_name)

\* two records of one heat returned and a record left out, for a query
\* that is spelled in another case than the names
C13_Witness ==
    /\ ex.pc = "done"
    /\ ex.swimmer_name = <<"Y">>
    /\ Len(ex.matched) = 2
    /\ Len(ex.parsed) = 3
    /\ KeyOf(ex.matched[1]) = KeyOf(ex.matched[2])

----------------------------------------------------------------------------
(* a call of _parse_heat_sheet run alone, from the first line to the last *)

RECURSIVE ScanFrom(_)
ScanFrom(st) ==
    IF st.i > Len(st.lines) THEN st
    ELSE ScanFrom([LoopBody(st) EXCEPT !.i = @ + 1])

_parse_heat_sheet(text) == ScanFrom(Normalized(NewCall(text))).events

\* the document call c of the merged/separate pair was started on
DocOf(c) == IF c = 1 THEN MergedDoc(given) ELSE SeparateDoc(given)

\* C14: however the steps of two calls on two documents are interleaved,
\* a call that has returned has returned the records it returns for its
\* document when it runs alone.
C14_CallsDoNotInterfere ==
    given.kind = "merged" =>
        \A c \in DOMAIN call :
            call[c].pc = "done" => call[c].events = _parse_heat_sheet(DocOf(c))

\* both calls have returned, each with records, and not the same ones
C14_Witness ==
    /\ given.kind = "merged"
    /\ BothDone
    /\ Len(call[1].events) > 0
    /\ Len(call[2].events) > 0
    /\ call[1].events # call[2].events

----------------------------------------------------------------------------
(* the effect of one line *)

\* the four context variables of a scanner
Context(st) == <<st.cur_ev, st.cur_name, st.cur_heat, st.cur_total>>

\* C16: a step of a call over one line keeps the records appended so far;
\* over an event header it sets event number and name, unsets heat and
\* total and appends nothing; over a heat header it sets the heat (and the
\* total, in the heat-of form), leaves event number and name (and the
\* total, in the other form) alone and appends nothing; over any other line
\* it leaves the four context variables alone and appends at most one
\* record.
C16_LineEffects ==
    [][\A c \in DOMAIN call :
          LET s == call[c]
              t == call'[c]
              kind == KindAt(s, s.i)
          IN (s.pc = "scan" /\ s.i <= Len(s.lines) /\ t.i = s.i + 1) =>
                /\ Len(t.events) >= Len(s.events)
                /\ SubSeq(t.events, 1, Len(s.events)) = s.events
                /\ kind = "event" =>
                      /\ t.events = s.events
                      /\ t.cur_ev = EventNumberAt(s, s.i)
                      /\ t.cur_name # NoneStr
                      /\ t.cur_heat = NoneInt
                      /\ t.cur_total = NoneInt
                /\ kind \in {"heat_of", "heat_only"} =>
                      /\ t.events = s.events
                      /\ t.cur_ev = s.cur_ev
                      /\ t.cur_name = s.cur_name
                      /\ t.cur_heat = HeatNumberAt(s, s.i)
                      /\ kind = "heat_of" => t.cur_total = TotalAt(s, s.i)
                      /\ kind = "heat_only" => t.cur_total = s.cur_total
                /\ kind \in {"blank", "entry"} =>
                      /\ Context(t) = Context(s)
                      /\ Len(t.events) <= Len(s.events) + 1]_vars

\* two finished calls with records: one has read a heat header with
\* name-shaped text in it while an event was open, the other an event
\* header with name-shaped text in it
C16_Witness ==
    /\ \E c \in DOMAIN call :
          LET st == call[c]
          IN /\ st.pc = "done"
             /\ Len(st.events) > 0
             /\ \E j \in 1..Len(st.lines) :
                   /\ KindAt(st, j) \in {"heat_of", "heat_only"}
                   /\ _name_from_line(Strip(st.lines[j])) # NoneStr
                   /\ EventsBefore(st, j) # {}
    /\ \E c \in DOMAIN call :
          LET st == call[c]
          IN /\ st.pc = "done"
             /\ Len(st.events) > 0
             /\ \E j \in 1..Len(st.lines) :
                   /\ KindAt(st, j) = "event"
                   /\ _name_from_line(Strip(st.lines[j])) # NoneStr

----------------------------------------------------------------------------
(* documents with an event header that has no name: up to MaxBareLines     *)
(* lines, each "#7" or one of four lines of the documents above            *)

MaxBareLines == 4

LnBare == <<"#","7">>

InitBare ==
    /\ \E ls \in UNION {[1..k -> {LnEvent1, LnBare, LnHeat2, LnHeat0of, LnEntry}] :
                            k \in 0..MaxBareLines} :
          /\ given = [kind |-> "bare", lines |-> ls]
          /\ call = [c \in {1} |-> NewCall(JoinLines(ls))]
    /\ norm = NormIdle
    /\ ex = ExIdle
    /\ crowd = CrowdIdle
    /\ tl = TlIdle

SpecBare == InitBare /\ [][NextParse]_vars

\* the line is "#<digits>", alone or followed by white space
IsHashLine(line) ==
    LET d == SpanEnd(line, 2, Digit)
    IN /\ HasLit(line, 1, <<"#">>)
       /\ d > 2
       /\ (d > Len(line) \/ line[d] \in WS)

HashNumber(line) == ToInt(Slice(line, 2, SpanEnd(line, 2, Digit)))

\* C17: every record of a finished call carries the number of the last
\* line "#<digits>" before its entry line, whether that line has a name
\* after the number or not.
C17_HashLineOpensEvent ==
    \A c \in DOMAIN call :
        LET st == call[c]
        IN st.pc = "done" =>
              \A r \in 1..Len(st.events) :
                  LET H == {j \in 1..(st.src[r] - 1) :
                               IsHashLine(Strip(st.lines[j]))}
                  IN H # {} =>
                        st.events[r].event_number
                            = HashNumber(Strip(st.lines[MaxOf(H)]))

\* the text ends with the given tail
EndsWith(text, tail) ==
    /\ Len(tail) <= Len(text)
    /\ SubSeq(text, Len(text) - Len(tail) + 1, Len(text)) = tail

\* C18: a record of a finished call whose entry line ends with the seed
\* time of the record has no lane.
C18_LaneNotFromSeed ==
    \A c \in DOMAIN call :
        LET st == call[c]
        IN st.pc = "done" =>
              \A r \in 1..Len(st.events) :
                  (/\ st.events[r].seed_time # NoneStr
                   /\ EndsWith(Strip(st.lines[st.src[r]]),
                               st.events[r].seed_time))
                      => st.events[r].lane = NoneInt

----------------------------------------------------------------------------
(* the crowd store: _CROWD, _LOCK and the requests that use them.  None as *)
(* the value of "latest" is the empty sequence, a payload p is <<p>>; a   *)
(* note that is None is the empty sequence, a note n is <<n>>.            *)

\* str.upper() on one character
Upper(c) ==
    IF \E i \in 1..26 : LowerCase[i] = c
    THEN UpperCase[CHOOSE i \in 1..26 : LowerCase[i] = c]
    ELSE c

\* meet_code.strip().upper()
MeetCode(s) == [j \in 1..Len(Strip(s)) |-> Upper(Strip(s)[j])]

\* the values time() may return, in any order
ClockValues == {1, 2}

\* lines 319-324: the request is refused, or goes on to the lock
BcValidate(r) ==
    LET q == crowd.reqs[r]
        code == MeetCode(q.meet_code)
        name == Strip(q.display_name)
    IN /\ q.op = "broadcast"
       /\ q.pc = "start"
       /\ crowd' = [crowd EXCEPT !.reqs[r] =
             IF Len(code) = 0 \/ Len(name) = 0
                  \/ q.event_number < 1 \/ q.heat_number < 1
             THEN [q EXCEPT !.pc = "rejected"]
             ELSE [q EXCEPT !.pc = "wait", !.code = code, !.name = name]]
       /\ UNCHANGED <<call, norm, tl, given, ex>>

\* lines 326-334: the lock is taken, the row made if missing, the payload
\* built with the time of the server
BcLock(r) ==
    LET q == crowd.reqs[r]
    IN /\ q.op = "broadcast"
       /\ q.pc = "wait"
       /\ crowd.lock = 0
       /\ \E ts \in ClockValues :
             crowd' = [crowd EXCEPT
                 !.lock = r,
                 !.store = IF q.code \in DOMAIN @ THEN @
                           ELSE (q.code :> [latest |-> <<>>, history |-> <<>>,
                                            updated_at |-> 0]) @@ @,
                 !.reqs[r] = [q EXCEPT
                     !.pc = "write",
                     !.payload = <<[display_name |-> q.name,
                                    event_number |-> q.event_number,
                                    heat_number |-> q.heat_number,
                                    note |-> IF q.note = <<>> THEN <<>>
                                             ELSE Strip(q.note[1]),
                                    server_ts |-> ts]>>]]
       /\ UNCHANGED <<call, norm, tl, given, ex>>

\* a write that puts the payload at the head of history
BcWrite_Prepend(r) ==
    LET q == crowd.reqs[r]
    IN /\ q.op = "broadcast"
       /\ q.pc = "write"
       /\ crowd' = [crowd EXCEPT
              !.store[q.code].latest = q.payload,
              !.store[q.code].history = q.payload \o @,
              !.reqs[r].pc = "stamp"]
       /\ UNCHANGED <<call, norm, tl, given, ex>>

\* lines 335-337: latest and history
BcWrite(r) ==
    LET q == crowd.reqs[r]
    IN /\ q.op = "broadcast"
       /\ q.pc = "write"
       /\ crowd' = [crowd EXCEPT
              !.store[q.code].latest = q.payload,
              !.store[q.code].history = @ \o q.payload,
              !.reqs[r].pc = "stamp"]
       /\ UNCHANGED <<call, norm, tl, given, ex>>

\* lines 338-341: updated_at, the lock is given back, {"ok": True}; log is
\* a history field: the broadcasts in the order they finished under the lock
BcStamp(r) ==
    LET q == crowd.reqs[r]
    IN /\ q.op = "broadcast"
       /\ q.pc = "stamp"
       /\ crowd' = [crowd EXCEPT
              !.store[q.code].updated_at = q.payload[1].server_ts,
              !.lock = 0,
              !.log = Append(@, [req |-> r, code |-> q.code]),
              !.reqs[r].pc = "done"]
       /\ UNCHANGED <<call, norm, tl, given, ex>>

\* a poll that makes the row of a meet code it does not find
PollUpdates_EnsuresMeet(r) ==
    LET q == crowd.reqs[r]
        code == MeetCode(q.meet_code)
    IN /\ q.op = "poll"
       /\ q.pc = "start"
       /\ crowd.lock = 0
       /\ crowd' = [crowd EXCEPT
             !.store = IF code \in DOMAIN @ THEN @
                       ELSE (code :> [latest |-> <<>>, history |-> <<>>,
                                      updated_at |-> 0]) @@ @,
             !.reqs[r] =
             [q EXCEPT
                !.pc = "done",
                !.code = code,
                !.seen = Len(crowd.log),
                !.result =
                   IF code \notin DOMAIN crowd.store
                   THEN [latest |-> <<>>, updated_at |-> 0]
                   ELSE IF crowd.store[code].updated_at > q.since
                   THEN [latest |-> crowd.store[code].latest,
                         updated_at |-> crowd.store[code].updated_at]
                   ELSE [latest |-> <<>>,
                         updated_at |-> crowd.store[code].updated_at]]]
       /\ UNCHANGED <<call, norm, tl, given, ex>>

\* a poll that returns the first payload of the history
PollUpdates_Oldest(r) ==
    LET q == crowd.reqs[r]
        code == MeetCode(q.meet_code)
    IN /\ q.op = "poll"
       /\ q.pc = "start"
       /\ crowd.lock = 0
       /\ crowd' = [crowd EXCEPT !.reqs[r] =
             [q EXCEPT
                !.pc = "done",
                !.code = code,
                !.seen = Len(crowd.log),
                !.result =
                   IF code \notin DOMAIN crowd.store
                   THEN [latest |-> <<>>, updated_at |-> 0]
                   ELSE IF crowd.store[code].updated_at > q.since
                   THEN [latest |-> <<crowd.store[code].history[1]>>,
                         updated_at |-> crowd.store[code].updated_at]
                   ELSE [latest |-> <<>>,
                         updated_at |-> crowd.store[code].updated_at]]]
       /\ UNCHANGED <<call, norm, tl, given, ex>>

\* crowd_updates, lines 343-352; seen is a history field: how many
\* broadcasts had finished when the poll took the lock
PollUpdates(r) ==
    LET q == crowd.reqs[r]
        code == MeetCode(q.meet_code)
    IN /\ q.op = "poll"
       /\ q.pc = "start"
       /\ crowd.lock = 0
       /\ crowd' = [crowd EXCEPT !.reqs[r] =
             [q EXCEPT
                !.pc = "done",
                !.code = code,
                !.seen = Len(crowd.log),
                !.result =
                   IF code \notin DOMAIN crowd.store
                   THEN [latest |-> <<>>, updated_at |-> 0]
                   ELSE IF crowd.store[code].updated_at > q.since
                   THEN [latest |-> crowd.store[code].latest,
                         updated_at |-> crowd.store[code].updated_at]
                   ELSE [latest |-> <<>>,
                         updated_at |-> crowd.store[code].updated_at]]]
       /\ UNCHANGED <<call, norm, tl, given, ex>>

NextCrowd ==
    \/ \E r \in DOMAIN crowd.reqs : BcValidate(r)
    \/ \E r \in DOMAIN crowd.reqs : BcLock(r)
    \/ \E r \in DOMAIN crowd.reqs : BcWrite(r)
    \/ \E r \in DOMAIN crowd.reqs : BcStamp(r)
    \/ \E r \in DOMAIN crowd.reqs : PollUpdates(r)

MaxReqs == 3

\* the requests: broadcasts for the meet codes AB (spelled in two ways)
\* and C, one refused broadcast for each of the four reasons, polls
CrowdRequests ==
    LET Bc(m, d, e, h, n) ==
            [op |-> "broadcast", pc |-> "start", meet_code |-> m,
             display_name |-> d, event_number |-> e, heat_number |-> h,
             note |-> n,
             since |-> 0, code |-> <<>>, name |-> <<>>, payload |-> <<>>,
             seen |-> 0, result |-> <<>>]
        Poll(m, t) ==
            [Bc(m, <<>>, 0, 0, <<>>) EXCEPT !.op = "poll", !.since = t]
    IN {Bc(<<" ","a","b">>, <<"A","l"," ">>, 1, 1, <<<<" ","g","o">>>>),
        Bc(<<"A","B">>, <<"B","o">>, 2, 1, <<>>),
        Bc(<<"c">>, <<"A","l">>, 1, 1, <<>>),
        Bc(<<" ">>, <<"A","l">>, 1, 1, <<>>),
        Bc(<<"A","B">>, <<" ">>, 1, 1, <<>>),
        Bc(<<"A","B">>, <<"A","l">>, 0, 1, <<>>),
        Bc(<<"A","B">>, <<"A","l">>, 1, 0, <<>>),
        Poll(<<"a","b"," ">>, 0),
        Poll(<<"A","B">>, 1)}

InitCrowd ==
    /\ \E rs \in UNION {[1..n -> CrowdRequests] : n \in 0..MaxReqs} :
          crowd = [store |-> <<>>, lock |-> 0, reqs |-> rs, log |-> <<>>]
    /\ call = <<>>
    /\ norm = NormIdle
    /\ tl = TlIdle
    /\ ex = ExIdle
    /\ given = GivenNone

SpecCrowd == InitCrowd /\ [][NextCrowd]_vars

----------------------------------------------------------------------------
(* the crowd claims *)

\* the payload of the i-th broadcast that finished
LogPayload(i) == crowd.reqs[crowd.log[i].req].payload[1]

\* the broadcasts for a meet code among the first n that finished
LogOf(code, n) == {i \in 1..n : crowd.log[i].code = code}

\* the meet code a request names, trimmed and in upper case
NamedCode(q) == MeetCode(q.meet_code)

\* C15: a finished poll that found, for its meet code, a broadcast finished
\* before it took the lock whose time stamp is greater than its since has
\* returned the payload and the time stamp of the last such broadcast.
C15_PollSeesLatest ==
    \A r \in DOMAIN crowd.reqs :
        LET q == crowd.reqs[r]
            B == LogOf(NamedCode(q), q.seen)
        IN (q.op = "poll" /\ q.pc = "done" /\ B # {}
              /\ LogPayload(MaxOf(B)).server_ts > q.since) =>
                 /\ q.result.latest = <<LogPayload(MaxOf(B))>>
                 /\ q.result.updated_at = LogPayload(MaxOf(B)).server_ts

\* a poll that came after two broadcasts with different payloads for its
\* meet code, spelled differently, and returned a payload
C15_Witness ==
    \E r \in DOMAIN crowd.reqs :
        LET q == crowd.reqs[r]
            B == LogOf(NamedCode(q), q.seen)
        IN /\ q.op = "poll" /\ q.pc = "done"
           /\ Cardinality(B) = 2
           /\ \E i, j \in B : LogPayload(i) # LogPayload(j)
           /\ Len(q.result.latest) = 1

\* the payloads of the broadcasts that finished for a meet code, in the
\* order the broadcasts held the lock
RECURSIVE LogHistory(_, _)
LogHistory(code, n) ==
    IF n = 0 THEN <<>>
    ELSE LogHistory(code, n - 1)
           \o (IF crowd.log[n].code = code THEN <<LogPayload(n)>> ELSE <<>>)

\* C19: whenever the lock is free, every row has a latest payload that is
\* the last element of its history and an updated_at that is the server_ts
\* of it, and its history holds the payloads of the broadcasts for its meet
\* code in the order they held the lock; and no step takes a row away or
\* changes its history otherwise than by appending.
C19_RowConsistent ==
    /\ [](crowd.lock = 0 =>
            \A code \in DOMAIN crowd.store :
                LET row == crowd.store[code]
                IN /\ Len(row.history) > 0
                   /\ row.latest = <<row.history[Len(row.history)]>>
                   /\ row.updated_at = row.latest[1].server_ts
                   /\ row.history = LogHistory(code, Len(crowd.log)))
    /\ [][\A code \in DOMAIN crowd.store :
             /\ code \in DOMAIN crowd'.store
             /\ Len(crowd'.store[code].history) >= Len(crowd.store[code].history)
             /\ SubSeq(crowd'.store[code].history, 1,
                       Len(crowd.store[code].history))
                    = crowd.store[code].history]_vars

\* two broadcasts with different payloads and time stamps have finished for
\* one meet code, the later one with the earlier time
C19_Witness ==
    /\ crowd.lock = 0
    /\ \E code \in DOMAIN crowd.store :
          /\ Len(crowd.store[code].history) = 2
          /\ crowd.store[code].history[1].server_ts
                > crowd.store[code].history[2].server_ts

\* a broadcast the handler must refuse
Refused(q) ==
    \/ Len(Strip(q.meet_code)) = 0
    \/ Len(Strip(q.display_name)) = 0
    \/ q.event_number < 1
    \/ q.heat_number < 1

\* C20: a broadcast that must be refused never gets past its checks, and a
\* step that changes the store is a step of a broadcast that need not be
\* refused, takes no row away and changes or makes no row but that of the
\* meet code of that broadcast.
C20_OnlyBroadcastWrites ==
    /\ [](\A r \in DOMAIN crowd.reqs :
            LET q == crowd.reqs[r]
            IN (q.op = "broadcast" /\ Refused(q)) => q.pc \in {"start", "rejected"})
    /\ [][crowd'.store # crowd.store =>
            \E r \in DOMAIN crowd.reqs :
                LET q == crowd.reqs[r]
                IN /\ crowd'.reqs[r] # q
                   /\ q.op = "broadcast"
                   /\ ~Refused(q)
                   /\ DOMAIN crowd.store \subseteq DOMAIN crowd'.store
                   /\ \A code \in DOMAIN crowd'.store :
                         code # NamedCode(q) =>
                            /\ code \in DOMAIN crowd.store
                            /\ crowd'.store[code] = crowd.store[code]]_vars

\* a refused broadcast, a finished poll of a meet code that has no row and
\* a finished broadcast for another meet code
C20_Witness ==
    /\ \E r \in DOMAIN crowd.reqs : crowd.reqs[r].pc = "rejected"
    /\ \E r \in DOMAIN crowd.reqs :
          /\ crowd.reqs[r].op = "poll"
          /\ crowd.reqs[r].pc = "done"
          /\ NamedCode(crowd.reqs[r]) \notin DOMAIN crowd.store
    /\ \E r \in DOMAIN crowd.reqs :
          crowd.reqs[r].op = "broadcast" /\ crowd.reqs[r].pc = "done"

----------------------------------------------------------------------------
(* a client of crowd_updates that polls one meet code again and again,     *)
(* each time with the updated_at of its last answer as since               *)

MaxPolls == 3

\* crowd_updates, lines 343-352, called by the client; polls counts the
\* calls, seen is the number of broadcasts finished at this call and prev
\* the number finished at the call before
ClientPoll ==
    LET k == crowd.client
        code == MeetCode(k.meet_code)
    IN /\ k.polls < MaxPolls
       /\ crowd.lock = 0
       /\ crowd' = [crowd EXCEPT !.client =
             [k EXCEPT
                !.polls = @ + 1,
                !.prev = k.seen,
                !.seen = Len(crowd.log),
                !.latest =
                   IF code \in DOMAIN crowd.store
                        /\ crowd.store[code].updated_at > k.since
                   THEN crowd.store[code].latest
                   ELSE <<>>,
                !.since =
                   IF code \in DOMAIN crowd.store
                   THEN crowd.store[code].updated_at
                   ELSE 0]]
       /\ UNCHANGED <<call, norm, tl, given, ex>>

NextClient ==
    \/ \E r \in DOMAIN crowd.reqs : BcValidate(r)
    \/ \E r \in DOMAIN crowd.reqs : BcLock(r)
    \/ \E r \in DOMAIN crowd.reqs : BcWrite(r)
    \/ \E r \in DOMAIN crowd.reqs : BcStamp(r)
    \/ ClientPoll

\* an empty store, up to MaxReqs broadcasts and a client that has not
\* polled yet: its first call has the default since, 0.0
InitClient ==
    /\ \E rs \in UNION {[1..n -> {q \in CrowdRequests : q.op = "broadcast"}] :
                            n \in 0..MaxReqs} :
          crowd = [store |-> <<>>, lock |-> 0, reqs |-> rs, log |-> <<>>,
                   client |-> [meet_code |-> <<"a","b"," ">>, since |-> 0,
                               polls |-> 0, prev |-> 0, seen |-> 0,
                               latest |-> <<>>]]
    /\ call = <<>>
    /\ norm = NormIdle
    /\ tl = TlIdle
    /\ ex = ExIdle
    /\ given = GivenNone

SpecClient == InitClient /\ [][NextClient]_vars

\* C21: when a broadcast for the meet code of the client has finished
\* after the poll before the last one and before the last one, the last
\* poll has returned a payload.
C21_NeverMissesUpdate ==
    LET k == crowd.client
    IN (k.polls >= 2
          /\ \E i \in (k.prev + 1)..k.seen :
                 crowd.log[i].code = MeetCode(k.meet_code))
         => Len(k.latest) = 1

====
